---------------------------- MODULE Spec2Model ----------------------------
(***************************************************************************)
(* Model of update_exceptions.py: the regular-expression rewriting of      *)
(* GuzzleException catch blocks (update_catch_blocks), the per-file driver *)
(* with its "already updated" gate (process_file) and the batch (main).    *)
(*                                                                         *)
(* A document is a sequence of lexemes.  Every lexeme is the text it       *)
(* stands for; the text of a document is the concatenation of its          *)
(* lexemes.  The regular expressions of the source are translated to       *)
(* matchers over lexemes: a literal piece of a regular expression is one   *)
(* lexeme, \s is the class of the three white-space lexemes, [^,] is       *)
(* every lexeme but the comma, [^'] every lexeme but the single quote.     *)
(***************************************************************************)
EXTENDS Naturals, Sequences, FiniteSets

(* ------------------------------ lexemes ------------------------------- *)
NL == "\n"
SP == " "
IND == "    "
CATCH == "} catch (GuzzleException $e) {"
CATCHX == "} catch (Exception $e) {"
XMSG == "$errorMessage = $this->extractErrorMessage($e);"
XDATA == "$errorData = $this->extractErrorData($e);"
XCODE == "$errorCode = $this->extractErrorCode($e);"
LOGERR == "$this->logger->error("
THROW == "throw new RagApiException("
COMMA == ","
SEMI == ";"
LBRK == "["
RBRK == "]"
RPAR == ")"
CLOSE == "}"
Q == "'"
DQ == "\""
DOT == "."
BSL == "\\"
ARROW == "=>"
KERR == "error"
KCODE == "error_code"
EMSGV == "$errorMessage"
ECODEV == "$errorCode"
EDATAV == "$errorData"
GETCODE == "$e->getCode()"
EVAR == "$e"
NULLT == "null"
MSGV == "$msg"
RET == "return null;"
TXTB == "Request failed"
LA == "Foo failed: "
LB == "Unable to fetch: "
EOF == ""

\* \s of the regular expressions
IsSpace(t) == t \in {NL, SP, IND}
\* the lexemes that end with a semicolon
SemiLexemes == {SEMI, XMSG, XDATA, XCODE, RET}

At(s, i) == IF i \in 1..Len(s) THEN s[i] ELSE EOF

Sub(s, a, b) == IF a > b THEN << >> ELSE SubSeq(s, a, b)

\* the first index >= i whose lexeme is not white space (Len(s)+1 when none)
RECURSIVE SkipSpace(_, _)
SkipSpace(s, i) ==
  IF i > Len(s) THEN Len(s) + 1
  ELSE IF IsSpace(s[i]) THEN SkipSpace(s, i + 1) ELSE i

\* the least element of a non-empty set of indexes
Least(I) == CHOOSE i \in I : \A j \in I : i <= j

\* the first index >= i whose lexeme is in set T (0 when none)
FirstIn(s, i, T) ==
  LET I == {k \in i..Len(s) : s[k] \in T}
  IN IF I = {} THEN 0 ELSE Least(I)

\* "\s*\n\s+" over the white-space run a..b: the line break taken is the
\* last one of the run that leaves white space after it (0 when none)
RECURSIVE LastBreak(_, _, _)
LastBreak(s, a, b) ==
  IF b - 1 < a THEN 0
  ELSE IF s[b - 1] = NL THEN b - 1 ELSE LastBreak(s, a, b - 1)


(* ------------------- update_catch_blocks: the pattern ------------------ *)
NoMatch == [ok |-> FALSE]

\* "\[['"]error['"]\s+=>\s+\$errorMessage" at index a: the index of its last
\* lexeme (0 when it does not match there)
error_field(s, a) ==
  LET w1 == SkipSpace(s, a + 4)
      w2 == SkipSpace(s, w1 + 1)
  IN IF /\ At(s, a) = LBRK
        /\ At(s, a + 1) \in {Q, DQ}
        /\ At(s, a + 2) = KERR
        /\ At(s, a + 3) \in {Q, DQ}
        /\ w1 > a + 4
        /\ At(s, w1) = ARROW
        /\ w2 > w1 + 1
        /\ At(s, w2) = EMSGV
     THEN w2 ELSE 0

\* ",\s+\$e->getCode\(\),\s+\$e\)" from the comma at index c: the index of
\* the closing parenthesis (0 when it does not match there)
throw_tail(s, c) ==
  LET g == SkipSpace(s, c + 1)
      e == SkipSpace(s, g + 2)
  IN IF /\ At(s, c) = COMMA
        /\ g > c + 1
        /\ At(s, g) = GETCODE
        /\ At(s, g + 1) = COMMA
        /\ e > g + 2
        /\ At(s, e) = EVAR
        /\ At(s, e + 1) = RPAR
     THEN e + 1 ELSE 0

\* The compiled pattern tried at index i (re's match at one start position).
\* g0 is the matched span, g1, g2, g3 the three groups, start and stop the
\* first and last index of the match.  Every quantifier of the pattern is followed by a lexeme it
\* cannot consume, so the match at a position is unique.
pattern_match(s, i) ==
  LET x   == SkipSpace(s, i + 1)                 \* ...\{\s*\n \s+\$errorMessage
      l   == SkipSpace(s, x + 1)                 \* ;)\s*\n (\s+\$this->logger
      b2  == LastBreak(s, x + 1, l - 1)
      c1  == FirstIn(s, l + 1, {COMMA})          \* [^,]+,
      f   == SkipSpace(s, c1 + 1)                \* \s+\[
      fe  == error_field(s, f)
      a   == IF At(s, fe + 2) = SEMI THEN fe + 3 ELSE fe + 2   \* \];?
      t   == SkipSpace(s, a)                     \* \s*\n (\s+throw
      b3  == LastBreak(s, a, t - 1)
      c2  == FirstIn(s, t + 1, {COMMA})          \* [^,]+,
      te  == throw_tail(s, c2)
  IN IF /\ At(s, i) = CATCH
        /\ LastBreak(s, i + 1, x - 1) # 0
        /\ At(s, x) = XMSG
        /\ b2 # 0
        /\ At(s, l) = LOGERR
        /\ c1 > l + 1
        /\ f > c1 + 1
        /\ fe # 0
        /\ At(s, fe + 1) = RBRK
        /\ b3 # 0
        /\ At(s, t) = THROW
        /\ c2 > t + 1
        /\ te # 0
        /\ At(s, te + 1) = SEMI
     THEN [ok |-> TRUE, start |-> i, stop |-> te + 1,
           g0 |-> Sub(s, i, te + 1), g1 |-> Sub(s, i, x),
           g2 |-> Sub(s, b2 + 1, fe), g3 |-> Sub(s, b3 + 1, te)]
     ELSE NoMatch

\* re.search(r"throw\s+new\s+RagApiException\('([^']+)'", throw_line) from
\* index p on: group 1 of the leftmost match, << >> when there is none
\* (a match's group 1 is never empty)
RECURSIVE error_match(_, _)
error_match(tl, p) ==
  IF p > Len(tl) THEN << >>
  ELSE LET q == FirstIn(tl, p + 2, {Q})
       IN IF tl[p] = THROW /\ At(tl, p + 1) = Q /\ q > p + 2
          THEN Sub(tl, p + 2, q - 1)
          ELSE error_match(tl, p + 1)


(* ----------------- update_catch_blocks: the replacement ---------------- *)
\* indent = '            ' (twelve spaces)
indent == <<IND, IND, IND>>

\* a slip that would leave out the unused fourth slot
throw_args_five(L) ==
  << <<Q>> \o L \o <<Q, SP, DOT, SP, BSL, EMSGV>>,
     <<BSL, GETCODE>>,
     <<BSL, EVAR>>,
     <<BSL, ECODEV>>,
     <<BSL, EDATAV>> >>

\* the six argument texts of the emitted throw statement; "\$" in the
\* source's non-raw string literals is no escape sequence of Python, so the
\* backslash stays in the emitted text
throw_args(L) ==
  << <<Q>> \o L \o <<Q, SP, DOT, SP, BSL, EMSGV>>,
     <<BSL, GETCODE>>,
     <<BSL, EVAR>>,
     <<NULLT>>,
     <<BSL, ECODEV>>,
     <<BSL, EDATAV>> >>

\* one line per argument, four spaces deeper than indent, a comma after all
\* but the last
RECURSIVE arg_lines(_, _)
arg_lines(args, k) ==
  IF k > Len(args) THEN << >>
  ELSE indent \o <<IND>> \o args[k]
       \o (IF k < Len(args) THEN <<COMMA>> ELSE << >>) \o <<NL>>
       \o arg_lines(args, k + 1)

\* ", 'error_code' => $errorCode];\n"
logger_suffix ==
  <<COMMA, SP, Q, KCODE, Q, SP, ARROW, SP, ECODEV, RBRK, SEMI, NL>>

new_block(m, L) ==
  m.g1 \o <<NL>>
  \o indent \o <<XDATA, NL>>
  \o indent \o <<XCODE, NL>>
  \o m.g2 \o logger_suffix
  \o indent \o <<THROW, NL>>
  \o arg_lines(throw_args(L), 1)
  \o indent \o <<RPAR, SEMI>>

\* a slip that would end the kept span with a line break
replacement_newline(m) ==
  LET L == error_match(m.g3, 1)
  IN IF L = << >> THEN m.g0 \o <<NL>> ELSE new_block(m, L)

replacement(m) ==
  LET L == error_match(m.g3, 1)
  IN IF L = << >> THEN m.g0 ELSE new_block(m, L)

\* the leftmost index >= pos at which the pattern matches (0 when none)
search(s, pos) ==
  LET I == {k \in pos..Len(s) : pattern_match(s, k).ok}
  IN IF I = {} THEN 0 ELSE Least(I)

\* pattern.sub(replacement, content) from pos on: matches are taken left to
\* right and do not overlap
RECURSIVE sub(_, _)
sub(s, pos) ==
  LET st == search(s, pos)
      m  == pattern_match(s, st)
  IN IF st = 0 THEN Sub(s, pos, Len(s))
     ELSE Sub(s, pos, st - 1) \o replacement(m) \o sub(s, m.stop + 1)

update_catch_blocks(content) == sub(content, 1)

(* ------------------------ process_file: the gate ----------------------- *)
\* 'extractErrorData' in text
has_data(s) == \E k \in 1..Len(s) : s[k] = XDATA

\* pattern.findall(content) of the gate from pos on.  The gate's expression
\* is a chain of literals joined by ".*?" under DOTALL, so a match from a
\* start takes the earliest next occurrence of each literal in turn.
RECURSIVE gate_findall(_, _)
gate_findall(s, pos) ==
  LET a == FirstIn(s, pos, {XMSG})
      b == IF a = 0 THEN 0 ELSE FirstIn(s, a + 1, {NL})
      c == IF b = 0 THEN 0 ELSE FirstIn(s, b + 1, {LOGERR})
      d == IF c = 0 THEN 0 ELSE FirstIn(s, c + 1, {NL})
      e == IF d = 0 THEN 0 ELSE FirstIn(s, d + 1, {THROW})
      f == IF e = 0 THEN 0 ELSE FirstIn(s, e + 1, {GETCODE})
      g == IF f = 0 THEN 0 ELSE FirstIn(s, f + 1, SemiLexemes)
  IN IF g = 0 THEN << >>
     ELSE <<Sub(s, a, g)>> \o gate_findall(s, g + 1)

\* sum(1 for m in matches if 'extractErrorData' not in m)
needs_update(s) ==
  LET ms == gate_findall(s, 1)
  IN Cardinality({k \in 1..Len(ms) : ~has_data(ms[k])})


(* ----------------------------- documents ------------------------------- *)
\* The input documents: PHP text made of up to MaxSegs segments, each a
\* catch block in one of the shapes below or a plain statement.
MaxSegs == 2

Indent(n) == [k \in 1..n |-> IND]

StdLog == <<LOGERR, Q, TXTB, Q, COMMA, SP, LBRK, Q, KERR, Q, SP, ARROW, SP, EMSGV>>
ThrowTail == <<COMMA, SP, GETCODE, COMMA, SP, EVAR, RPAR, SEMI, NL>>

\* a catch block of the pending shape: n levels of indentation, gap the
\* text between the extraction and the logging statement, logEnd the end of
\* the logging statement, arg the first argument of the throw statement
Block(n, gap, logEnd, arg) ==
  <<CATCH, NL>> \o Indent(n) \o <<XMSG>> \o gap
  \o Indent(n) \o StdLog \o logEnd \o <<NL>>
  \o Indent(n) \o <<THROW>> \o arg \o ThrowTail
  \o Indent(n - 1) \o <<CLOSE, NL>>

\* a catch block that logs and throws without a comma in either statement
NoCommaBlock ==
  <<CATCH, NL>> \o Indent(3) \o <<XMSG, NL>>
  \o Indent(3) \o <<LOGERR, EMSGV, RPAR, SEMI, NL>>
  \o Indent(3) \o <<THROW, EMSGV, RPAR, SEMI, NL>>
  \o Indent(2) \o <<CLOSE, NL>>

\* a catch block migrated by hand: well-formed PHP in the enriched shape
EnrichedBlock ==
  <<CATCH, NL>> \o Indent(3) \o <<XMSG, NL>>
  \o Indent(3) \o <<XDATA, NL>>
  \o Indent(3) \o <<XCODE, NL>>
  \o Indent(3) \o StdLog
  \o <<COMMA, SP, Q, KCODE, Q, SP, ARROW, SP, ECODEV, RBRK, RPAR, SEMI, NL>>
  \o Indent(3) \o <<THROW, Q, LA, Q, SP, DOT, SP, EMSGV, COMMA, SP, GETCODE,
                    COMMA, SP, EVAR, COMMA, SP, NULLT, COMMA, SP, ECODEV,
                    COMMA, SP, EDATAV, RPAR, SEMI, NL>>
  \o Indent(2) \o <<CLOSE, NL>>

\* a catch block that extracts message and data and returns without
\* logging or throwing
HandledBlock ==
  <<CATCHX, NL>> \o Indent(3) \o <<XMSG, NL>>
  \o Indent(3) \o <<XDATA, NL>>
  \o Indent(3) \o <<RET, NL>>
  \o Indent(2) \o <<CLOSE, NL>>

Plain == Indent(2) \o <<RET, NL>>

Segments ==
  << Block(3, <<NL>>, <<RBRK, SEMI>>, <<Q, LA, Q>>),
     Block(2, <<NL>>, <<RBRK, SEMI>>, <<Q, LB, Q>>),
     Block(3, <<NL>>, <<RBRK>>, <<Q, LA, Q>>),
     Block(3, <<NL>>, <<RBRK, RPAR, SEMI>>, <<Q, LB, Q>>),
     Block(3, <<NL>>, <<RBRK, SEMI>>, <<MSGV>>),
     Block(3, <<NL>>, <<RBRK, SEMI>>, <<DQ, LA, DQ>>),
     Block(3, <<NL>>, <<RBRK, SEMI>>, <<Q, LA, Q, SP, DOT, SP, MSGV>>),
     Block(3, <<SP, NL, NL>>, <<RBRK, SEMI>>, <<Q, LB, Q>>),
     NoCommaBlock,
     EnrichedBlock,
     HandledBlock,
     Plain >>

RECURSIVE Concat(_, _)
Concat(ks, i) ==
  IF i > Len(ks) THEN << >> ELSE Segments[ks[i]] \o Concat(ks, i + 1)

SegChoices == UNION {[1..n -> 1..Len(Segments)] : n \in 0..MaxSegs}

Docs == {Concat(ks, 1) : ks \in SegChoices}


(* ------------------------------- state --------------------------------- *)
VARIABLES
  \* update_catch_blocks applied to a document, then to its own result
  input,          \* the document handed to the first pass
  cur,            \* content: the text the running pass scans
  pos,            \* where pattern.sub resumes scanning
  out,            \* the text pattern.sub has produced so far
  pass,           \* 1, 2
  epc,            \* "scan", "done"
  last,           \* the last candidate and what replacement returned for it
  first,          \* the result of the first pass
  \* main and process_file
  disk,           \* the stored content of each file of the list
  run,            \* how many times main has been started
  idx,            \* main's position in the list of files
  pc,             \* the statement process_file or main is at
  text,           \* content, as read
  updated,        \* updated_content
  pending,        \* <<needs_update>> once the gate has counted, << >> before
  report,         \* the outcome line process_file printed last
  result,         \* the value process_file returns
  updated_count,  \* main's counter
  calls,          \* the calls of process_file this run of main has finished
  summary,        \* the numbers of the summary line, << >> before it
  before,         \* the stored contents when the running call started
  wopen,          \* the running call has opened the file for writing
  succeeded       \* files an earlier call reported "Updated successfully" on

evars == <<input, cur, pos, out, pass, epc, last, first>>
mvars == <<disk, run, idx, pc, text, updated, pending, report, result,
           updated_count, calls, summary, before, wopen, succeeded>>
vars == <<input, cur, pos, out, pass, epc, last, first,
          disk, run, idx, pc, text, updated, pending, report, result,
          updated_count, calls, summary, before, wopen, succeeded>>

\* len(files)
NFiles == 3
\* main is started at most MaxRuns times
MaxRuns == 2

NoCand == [kind |-> "none", m |-> NoMatch, repl |-> << >>]

EngineIdle ==
  /\ input = << >> /\ cur = << >> /\ pos = 1 /\ out = << >>
  /\ pass = 0 /\ epc = "idle" /\ last = NoCand /\ first = << >>

MainIdle ==
  /\ disk = << >> /\ run = 0 /\ idx = 0 /\ pc = "idle"
  /\ text = << >> /\ updated = << >> /\ pending = << >>
  /\ report = "" /\ result = FALSE /\ updated_count = 0
  /\ calls = << >> /\ summary = << >> /\ before = << >>
  /\ wopen = FALSE /\ succeeded = {}

(* ------------- update_catch_blocks, one candidate at a time ------------ *)
Init ==
  /\ input \in Docs
  /\ cur = input /\ pos = 1 /\ out = << >>
  /\ pass = 1 /\ epc = "scan" /\ last = NoCand /\ first = << >>
  /\ MainIdle

\* pattern.sub finds the next candidate, its first argument is a
\* single-quoted literal: the enriched block replaces it
SubRewrite ==
  /\ epc = "scan"
  /\ search(cur, pos) # 0
  /\ LET m == pattern_match(cur, search(cur, pos))
     IN /\ error_match(m.g3, 1) # << >>
        /\ out' = out \o Sub(cur, pos, m.start - 1) \o replacement(m)
        /\ pos' = m.stop + 1
        /\ last' = [kind |-> "rewritten", m |-> m, repl |-> replacement(m)]
  /\ UNCHANGED <<input, cur, pass, epc, first>>
  /\ UNCHANGED mvars

\* pattern.sub finds the next candidate, replacement finds no literal
SubKeep ==
  /\ epc = "scan"
  /\ search(cur, pos) # 0
  /\ LET m == pattern_match(cur, search(cur, pos))
     IN /\ error_match(m.g3, 1) = << >>
        /\ out' = out \o Sub(cur, pos, m.start - 1) \o replacement(m)
        /\ pos' = m.stop + 1
        /\ last' = [kind |-> "kept", m |-> m, repl |-> replacement(m)]
  /\ UNCHANGED <<input, cur, pass, epc, first>>
  /\ UNCHANGED mvars

\* no candidate is left: the rest of the text is copied, the pass returns
SubFinish ==
  /\ epc = "scan"
  /\ search(cur, pos) = 0
  /\ out' = out \o Sub(cur, pos, Len(cur))
  /\ epc' = "done"
  /\ first' = IF pass = 1 THEN out' ELSE first
  /\ UNCHANGED <<input, cur, pos, pass, last>>
  /\ UNCHANGED mvars

\* update_catch_blocks is applied to the result of the first pass
SecondPass ==
  /\ epc = "done" /\ pass = 1
  /\ cur' = out /\ pos' = 1 /\ out' = << >>
  /\ pass' = 2 /\ epc' = "scan" /\ last' = NoCand
  /\ UNCHANGED <<input, first>>
  /\ UNCHANGED mvars

Next == SubRewrite \/ SubKeep \/ SubFinish \/ SecondPass

Spec == Init /\ [][Next]_vars

\* the steps above compute what update_catch_blocks returns
StepsAgree == epc = "done" => out = update_catch_blocks(cur)


(* ------------- reading a candidate and an emitted block ---------------- *)
LastIn(s, T) ==
  LET I == {k \in 1..Len(s) : s[k] \in T}
  IN IF I = {} THEN 0 ELSE CHOOSE i \in I : \A j \in I : j <= i

\* the pieces of s between the lexemes sep
RECURSIVE Split(_, _)
Split(s, sep) ==
  LET c == FirstIn(s, 1, {sep})
  IN IF c = 0 THEN <<s>>
     ELSE <<Sub(s, 1, c - 1)>> \o Split(Sub(s, c + 1, Len(s)), sep)

LeadWs(s) == Sub(s, 1, SkipSpace(s, 1) - 1)

Trim(s) ==
  LET I == {k \in 1..Len(s) : ~IsSpace(s[k])}
  IN IF I = {} THEN << >>
     ELSE Sub(s, Least(I), CHOOSE i \in I : \A j \in I : j <= i)

IsPrefix(a, b) == Len(a) <= Len(b) /\ Sub(b, 1, Len(a)) = a

Contains(s, piece) ==
  /\ Len(piece) <= Len(s)
  /\ \E k \in 0..(Len(s) - Len(piece)) : Sub(s, k + 1, k + Len(piece)) = piece

\* the first argument of a candidate's throw statement
FirstArg(g3) ==
  LET t == FirstIn(g3, 1, {THROW})
  IN Sub(g3, t + 1, FirstIn(g3, t + 1, {COMMA}) - 1)

\* a single-quoted string literal: 'L' with L not empty
IsQuotedLiteral(a) ==
  /\ Len(a) >= 3
  /\ a[1] = Q /\ a[Len(a)] = Q
  /\ \A k \in 2..(Len(a) - 1) : a[k] # Q

\* the arguments of the throw statement that ends an emitted block
EmittedArgs(repl) ==
  LET t  == LastIn(repl, {THROW})
      as == Split(Sub(repl, t + 1, Len(repl) - 2), COMMA)
  IN [k \in 1..Len(as) |-> Trim(as[k])]

\* the indentation of the candidate: that of its logging statement
CandidateIndent(m) == LeadWs(m.g2)

\* the lines of an emitted block that the candidate did not have: the two
\* derivation statements after the extraction line, and the throw statement
DerivationLines(m, repl) ==
  LET n1 == Len(Split(m.g1, NL))
      ls == Split(repl, NL)
  IN <<ls[n1 + 1], ls[n1 + 2]>>

ThrowLines(repl) ==
  LET t  == LastIn(repl, {THROW})
      n0 == Len(Split(Sub(repl, 1, t), NL))
      ls == Split(repl, NL)
  IN Sub(ls, n0, Len(ls))

Rewritten == last.kind = "rewritten"

(* ------------------------------ the claims ----------------------------- *)
\* C1: update_catch_blocks is idempotent: the second pass rewrites no
\* candidate, and returns the text the first pass returned.
C1_Idempotent ==
  pass = 2 => /\ ~Rewritten
              /\ epc = "done" => out = first

C1_Witness == pass = 2 /\ epc = "done" /\ first # input /\ last.kind = "kept"

\* C2: when the first argument of the candidate's throw statement is the
\* single-quoted literal 'L', the first argument of the emitted throw
\* statement is exactly 'L' . $errorMessage.
C2_LiteralPreserved ==
  (Rewritten /\ IsQuotedLiteral(FirstArg(last.m.g3)))
    => EmittedArgs(last.repl)[1] = FirstArg(last.m.g3) \o <<SP, DOT, SP, EMSGV>>

\* C3: a document holding one catch block with the extraction statement, a
\* complete logging call with the one field 'error' and a throw with a
\* single-quoted literal is rewritten: the result keeps the extraction
\* statement, has the two derivation statements and a complete logging call
\* with the fields 'error' and 'error_code'.
C3_Scenario ==
  (pass = 1 /\ epc = "done"
     /\ input = Block(3, <<NL>>, <<RBRK, RPAR, SEMI>>, <<Q, LB, Q>>))
    => /\ Contains(out, <<XMSG, NL>>)
       /\ Contains(out, <<XDATA, NL>>)
       /\ Contains(out, <<XCODE, NL>>)
       /\ Contains(out, StdLog \o <<COMMA, SP, Q, KCODE, Q, SP, ARROW, SP,
                                    ECODEV, RBRK, RPAR, SEMI>>)

\* C4: a matched span whose throw statement's first argument is not a
\* single-quoted literal is returned unchanged.
C4_IneligibleUnchanged ==
  (last.kind # "none" /\ ~IsQuotedLiteral(FirstArg(last.m.g3)))
    => last.repl = last.m.g0

\* C5: every line the replacement adds is indented as the candidate is: the
\* derivation statements, the first and the last line of the throw statement
\* carry the candidate's indentation, the argument lines start with it.
C5_IndentPreserved ==
  Rewritten =>
    LET W  == CandidateIndent(last.m)
        ds == DerivationLines(last.m, last.repl)
        ts == ThrowLines(last.repl)
    IN /\ LeadWs(ds[1]) = W /\ LeadWs(ds[2]) = W
       /\ LeadWs(ts[1]) = W /\ LeadWs(ts[Len(ts)]) = W
       /\ \A k \in 2..(Len(ts) - 1) : IsPrefix(W, LeadWs(ts[k]))

\* C6: the emitted throw statement has exactly six arguments, in the order
\* description (the literal, then the message variable), native code of the
\* caught error, the caught error, null, derived error code, derived error
\* data.  An argument is named by its last lexeme: the emitted text puts a
\* backslash before each variable (see C2).
C6_Arity ==
  Rewritten =>
    LET as == EmittedArgs(last.repl)
        L  == error_match(last.m.g3, 1)
    IN /\ Len(as) = 6
       /\ IsPrefix(<<Q>> \o L \o <<Q, SP, DOT>>, as[1])
       /\ as[1][Len(as[1])] = EMSGV
       /\ as[2][Len(as[2])] = GETCODE
       /\ as[3][Len(as[3])] = EVAR
       /\ as[4] = <<NULLT>>
       /\ as[5][Len(as[5])] = ECODEV
       /\ as[6][Len(as[6])] = EDATAV

C6_Witness == Rewritten /\ pass = 1 /\ Len(EmittedArgs(last.repl)) > 1


(* ------------------------ process_file and main ------------------------ *)
\* The contents the files of main's list start with: a pending block; a
\* pending block followed by one whose throw has a variable as first
\* argument; a handled block followed by a pending block; a block migrated
\* by hand; a block whose logging call is complete; a plain statement.
FileChoices == {<<1>>, <<1, 5>>, <<11, 1>>, <<10>>, <<4>>, <<12>>}

FileDocs == {Concat(ks, 1) : ks \in FileChoices}

InitMain ==
  /\ disk \in [1..NFiles -> FileDocs]
  /\ run = 1 /\ idx = 1 /\ pc = "read"
  /\ text = << >> /\ updated = << >> /\ pending = << >>
  /\ report = "" /\ result = FALSE /\ updated_count = 0
  /\ calls = << >> /\ summary = << >> /\ before = disk
  /\ wopen = FALSE /\ succeeded = {}
  /\ EngineIdle

\* a slip that would write whatever the transform returns
differs_always(a, b) == TRUE

\* updated_content == content is false
differs(a, b) == a # b

\* a slip that would count every file
count_always(c, r) == c + 1

\* if process_file(filepath): updated_count += 1
count_after(c, r) == IF r THEN c + 1 ELSE c

\* process_file returns r after printing msg
Returns(r, msg) ==
  /\ result' = r
  /\ report' = msg
  /\ pc' = "return"

\* open(filepath, 'r') and f.read() succeed
ReadOK ==
  /\ pc = "read"
  /\ text' = disk[idx]
  /\ pc' = "gate"
  /\ UNCHANGED <<disk, run, idx, updated, pending, report, result,
                 updated_count, calls, summary, before, wopen, succeeded>>
  /\ UNCHANGED evars

\* open or read raises: except Exception prints the error, returns False
ReadFail ==
  /\ pc = "read"
  /\ Returns(FALSE, "error")
  /\ UNCHANGED <<disk, run, idx, text, updated, pending,
                 updated_count, calls, summary, before, wopen, succeeded>>
  /\ UNCHANGED evars

\* 'extractErrorData' in content and no match of the gate lacks it
GateStop ==
  /\ pc = "gate"
  /\ has_data(text) /\ needs_update(text) = 0
  /\ pending' = <<0>>
  /\ Returns(FALSE, "fully")
  /\ UNCHANGED <<disk, run, idx, text, updated,
                 updated_count, calls, summary, before, wopen, succeeded>>
  /\ UNCHANGED evars

\* the gate lets the file through: the marker is absent, or some match of
\* the gate lacks it ("Found N catch blocks still needing update")
GatePass ==
  /\ pc = "gate"
  /\ ~(has_data(text) /\ needs_update(text) = 0)
  /\ pending' = IF has_data(text) THEN <<needs_update(text)>> ELSE << >>
  /\ pc' = "transform"
  /\ UNCHANGED <<disk, run, idx, text, updated, report, result,
                 updated_count, calls, summary, before, wopen, succeeded>>
  /\ UNCHANGED evars

\* updated_content = update_catch_blocks(content)
Transform ==
  /\ pc = "transform"
  /\ updated' = update_catch_blocks(text)
  /\ pc' = "compare"
  /\ UNCHANGED <<disk, run, idx, text, pending, report, result,
                 updated_count, calls, summary, before, wopen, succeeded>>
  /\ UNCHANGED evars

\* if updated_content == content: "No changes made", return False
NoChange ==
  /\ pc = "compare"
  /\ ~differs(updated, text)
  /\ Returns(FALSE, "nochange")
  /\ UNCHANGED <<disk, run, idx, text, updated, pending,
                 updated_count, calls, summary, before, wopen, succeeded>>
  /\ UNCHANGED evars

\* open(filepath, 'w') and f.write succeed: "Updated successfully"
WriteOK ==
  /\ pc = "compare"
  /\ differs(updated, text)
  /\ wopen' = TRUE
  /\ disk' = [disk EXCEPT ![idx] = updated]
  /\ Returns(TRUE, "updated")
  /\ UNCHANGED <<run, idx, text, updated, pending,
                 updated_count, calls, summary, before, succeeded>>
  /\ UNCHANGED evars

\* open(filepath, 'w') raises on a file that cannot be written: the stored
\* content stays, except Exception prints the error, returns False
WriteFail ==
  /\ pc = "compare"
  /\ differs(updated, text)
  /\ wopen' = TRUE
  /\ Returns(FALSE, "error")
  /\ UNCHANGED <<disk, run, idx, text, updated, pending,
                 updated_count, calls, summary, before, succeeded>>
  /\ UNCHANGED evars

\* main takes the value returned and moves on to the next file
Return ==
  /\ pc = "return"
  /\ updated_count' = count_after(updated_count, result)
  /\ calls' = Append(calls, [file |-> idx, ret |-> result, msg |-> report])
  /\ succeeded' = IF report = "updated" THEN succeeded \cup {idx} ELSE succeeded
  /\ IF idx < NFiles
       THEN /\ idx' = idx + 1
            /\ pc' = "read"
       ELSE /\ idx' = idx
            /\ pc' = "summary"
  /\ before' = disk
  /\ wopen' = FALSE
  /\ text' = << >> /\ updated' = << >> /\ pending' = << >>
  /\ UNCHANGED <<disk, run, report, result, summary>>
  /\ UNCHANGED evars

\* print(f"Updated {updated_count}/{len(files)} files")
Summary ==
  /\ pc = "summary"
  /\ summary' = <<updated_count, NFiles>>
  /\ pc' = "exit"
  /\ UNCHANGED <<disk, run, idx, text, updated, pending, report, result,
                 updated_count, calls, before, wopen, succeeded>>
  /\ UNCHANGED evars

\* the script is run again on the same files
Rerun ==
  /\ pc = "exit"
  /\ run < MaxRuns
  /\ run' = run + 1
  /\ idx' = 1 /\ pc' = "read"
  /\ updated_count' = 0 /\ calls' = << >> /\ summary' = << >>
  /\ report' = "" /\ result' = FALSE
  /\ UNCHANGED <<disk, text, updated, pending, before, wopen, succeeded>>
  /\ UNCHANGED evars

NextMain ==
  \/ ReadOK \/ ReadFail \/ GateStop \/ GatePass \/ Transform
  \/ NoChange \/ WriteOK \/ WriteFail \/ Return \/ Summary \/ Rerun

SpecMain == InitMain /\ [][NextMain]_vars


(* ---------------------- the claims on process_file --------------------- *)
Trues == {k \in 1..Len(calls) : calls[k].ret}

\* C7, as claimed: a call on a file that an earlier call reported "Updated
\* successfully" on (and that can be read) counts zero pending blocks,
\* reports "Already fully updated", returns False and does not open the
\* file for writing.
C7_ReportsFullyUpdated ==
  (idx \in succeeded /\ pc = "return" /\ report # "error")
    => /\ report = "fully" /\ pending = <<0>>
       /\ ~result /\ ~wopen

\* C7, amended: a call on a file that an earlier call reported "Updated
\* successfully" on never opens the file for writing, leaves its content
\* as it is and returns False; it reports "Already fully updated", or "No
\* changes made" when the gate still counts blocks, or the read error.
C7_NoSecondWrite ==
  idx \in succeeded
    => /\ ~wopen
       /\ disk = before
       /\ pc = "return" => /\ ~result
                           /\ report \in {"fully", "nochange", "error"}

C7_Witness ==
  /\ idx \in succeeded /\ pc = "return" /\ run = 2
  /\ report = "nochange" /\ pending = <<1>>

C9_BatchContained ==
  /\ \A k \in 1..Len(calls) : calls[k].file = k
  /\ Len(calls) = IF pc \in {"summary", "exit"} THEN NFiles ELSE idx - 1
  /\ \A k \in 1..Len(calls) : calls[k].msg = "error" => ~calls[k].ret
  /\ updated_count = Cardinality(Trues)
  /\ updated_count \in 0..NFiles
  /\ pc = "exit" => summary = <<Cardinality(Trues), NFiles>>

C9_Witness ==
  /\ pc = "exit"
  /\ calls[1].msg = "error"
  /\ calls[2].ret /\ calls[3].msg = "error"
  /\ summary = <<1, NFiles>>

\* C10: when the gate reports "Already fully updated", update_catch_blocks
\* would have changed nothing.
C10_GateSound ==
  (pc = "return" /\ report = "fully") => update_catch_blocks(text) = text

=============================================================================
